---- MODULE Spec2Model ----
(***************************************************************************)
(* EthEngine (src/unnamed/part_003): the block-range scanner               *)
(* scanBlockRange and the contract invoker callFunction, as one state      *)
(* machine.  The engine is single-threaded JavaScript: every action below  *)
(* is one run-to-completion step (a call from the caller, or one callback  *)
(* / continuation delivered by the node client).                           *)
(*                                                                         *)
(* Not modelled: the text written to process.stdout, the wall-clock        *)
(* throughput figures of exitThread, and the amount text of a result       *)
(* message (web3.utils.fromWei).  getBlock is taken to answer every        *)
(* request with either an error or a block object.                         *)
(***************************************************************************)
EXTENDS Integers, Sequences, FiniteSets, TLC

VARIABLES pc, scan, call, earlier

vars == <<pc, scan, call, earlier>>

(***************************************************************************)
(* Bounds of the model.                                                    *)
(***************************************************************************)
\* caller-supplied heights range over 0..MaxArg, plus one far stop height
MaxArg == 3
\* the far stop height a caller may ask for (ranges longer than the pool)
LongStop == 25
\* with at most MaxReorder fetches outstanding the node answers them in any
\* order; with more outstanding it answers the oldest one first
MaxReorder == 3
\* at most MaxErrors block fetches of one scan are answered with an error
MaxErrors == 2
\* chain heads the node may report from getBlockNumber
HeadLow == 3
HeadHigh == 12
\* gas estimates the node may return range over 1..MaxEstimate
MaxEstimate == 3
\* the gas value of a caller who supplies one
CallerGas == 5
\* confirmation events of one transaction are numbered 0..MaxConf
MaxConf == 2
\* longest range getPercentComplete is evaluated on, each height of it
MaxSpan == 50
\* highest block of the ranges scanned when the engine runs two scans
ShortStop == 3

(***************************************************************************)
(* Program constants.                                                      *)
(***************************************************************************)
maxThreads == 20

\* an omitted optional argument (heights supplied by a caller are >= 0)
Undefined == -1

\* web3.defaultAccount, the watched address
Watched == "0xW"

\* JavaScript's !v for a height argument: undefined and 0 are both falsy
Falsy(v) == v = Undefined \/ v = 0

(***************************************************************************)
(* The chain served by the node: block h exists for h >= 0, its timestamp  *)
(* stands for the height, and its transactions depend on h.                *)
(***************************************************************************)
BlockExists(h) == h >= 0

Txn(f, t) == [from |-> f, to |-> t]

BlockAt(h) ==
  [timestamp |-> h,
   transactions |->
     CASE h % 4 = 0 -> << >>
       [] h % 4 = 1 -> << Txn("0xA", Watched) >>
       [] h % 4 = 2 -> << Txn(Watched, "0xB"), Txn("0xA", "0xB") >>
       [] OTHER     -> << Txn(Watched, Watched), Txn("0xB", Watched) >>]

(***************************************************************************)
(* JavaScript numbers are IEEE 754 doubles.  For getPercentComplete the    *)
(* quotient n / t and its product with 100 are each rounded to a           *)
(* significand of Precision bits, to nearest, ties to even.  A positive    *)
(* double is kept as [m, e]: m the significand, its leading bit followed   *)
(* by Limbs digits of LimbBits bits each, and e the binary exponent of     *)
(* its last bit.  The operators are exact for operands below Limb.         *)
(***************************************************************************)
Precision == 53
LimbBits == 13
Limb == 2 ^ LimbBits
Limbs == (Precision - 1) \div LimbBits

\* the result of 0 / 0
NaN == -1

\* m + 1; the leading digit becomes 2 when every bit of m was 1
increment(m) ==
  LET j == CHOOSE i \in 1 .. Limbs + 1 :
             /\ i = 1 \/ m[i] # Limb - 1
             /\ \A l \in i + 1 .. Limbs + 1 : m[l] = Limb - 1
  IN [i \in 1 .. Limbs + 1 |-> IF i < j THEN m[i] ELSE IF i = j THEN m[i] + 1 ELSE 0]

\* the exact value with leading digits m, last bit at exponent e, rounded
\* up or not
roundTo(m, e, up) ==
  LET r == IF up THEN increment(m) ELSE m
  IN IF r[1] = 2
       THEN [m |-> [i \in 1 .. Limbs + 1 |-> IF i = 1 THEN 1 ELSE 0], e |-> e + 1]
       ELSE [m |-> r, e |-> e]

\* the k with t <= n * 2^k < 2 * t
normalise(n, t) ==
  CHOOSE k \in 0 .. LimbBits :
    /\ n * (2 ^ k) >= t
    /\ k = 0 \/ n * (2 ^ (k - 1)) < t

\* the double n / t, for 0 < n <= t: long division, a digit at a time
divide(n, t) ==
  LET k  == normalise(n, t)
      r0 == n * (2 ^ k) - t
      r1 == (r0 * Limb) % t
      r2 == (r1 * Limb) % t
      r3 == (r2 * Limb) % t
      r4 == (r3 * Limb) % t
      m  == << 1, (r0 * Limb) \div t, (r1 * Limb) \div t,
                  (r2 * Limb) \div t, (r3 * Limb) \div t >>
      up == 2 * r4 > t \/ (2 * r4 = t /\ m[Limbs + 1] % 2 = 1)
  IN roundTo(m, -(k + Precision - 1), up)

\* the double x * c, for an integer c with 2 <= c < Limb
times(x, c) ==
  LET v5 == x.m[5] * c
      v4 == x.m[4] * c + v5 \div Limb
      v3 == x.m[3] * c + v4 \div Limb
      v2 == x.m[2] * c + v3 \div Limb
      p  == << x.m[1] * c + v2 \div Limb, v2 % Limb, v3 % Limb, v4 % Limb, v5 % Limb >>
      \* the bits the exact product has beyond Precision
      drop == CHOOSE d \in 1 .. LimbBits : 2 ^ d <= p[1] /\ p[1] < 2 ^ (d + 1)
      kept == [i \in 1 .. Limbs + 1 |->
                 IF i = 1 THEN p[1] \div (2 ^ drop)
                 ELSE p[i] \div (2 ^ drop) + (p[i - 1] % (2 ^ drop)) * (2 ^ (LimbBits - drop))]
      rest == p[Limbs + 1] % (2 ^ drop)
      half == 2 ^ (drop - 1)
      up   == rest > half \/ (rest = half /\ kept[Limbs + 1] % 2 = 1)
  IN roundTo(kept, x.e + drop, up)

\* Math.floor of a positive double below Limb
floor(x) ==
  LET whole == Precision + x.e
  IN IF whole <= 0 THEN 0
     ELSE (2 ^ (whole - 1)) + x.m[2] \div (2 ^ (LimbBits - (whole - 1)))

\* variant: the percentage is computed in exact integer arithmetic
getPercentComplete_exact(startingBlock, stoppingBlock, bn) ==
  LET t == stoppingBlock - startingBlock
      n == bn - startingBlock
  IN IF t = 0 THEN NaN ELSE (n * 100) \div t

\* lines 251-255, for startingBlock <= bn <= stoppingBlock
getPercentComplete(startingBlock, stoppingBlock, bn) ==
  LET t == stoppingBlock - startingBlock
      n == bn - startingBlock
  IN IF t = 0 THEN NaN
     ELSE IF n = 0 THEN 0
     ELSE floor(times(divide(n, t), 100))

(***************************************************************************)
(* scanBlockRange: the closures of one scan, as functions on the scan's    *)
(* local state s.                                                          *)
(*   s.pending   getBlock requests whose callback has not run yet          *)
(*   s.nodeLog   every request sent to the node, in order                  *)
(*   s.inspected (history) every block handed to scanBlockCallback, with   *)
(*               the value gotError had at that moment                     *)
(*   s.promise   state of the promise returned to the caller               *)
(*   s.progress  the status lines written to stdout: height, percentage    *)
(*               and the worker chain that wrote the line                  *)
(*   s.callbackLog  invocations of the caller's completion callback        *)
(*   s.errors    (history) number of fetches the node answered with an     *)
(*               error                                                     *)
(*   s.executor  how far the promise executor (lines 228-352) has come:    *)
(*               running, returned -1 (line 243), returned nt (line 351),  *)
(*               or threw (the awaited getBlockNumber failed)              *)
(*   s.args      (history) the heights the caller passed                   *)
(*   s.self, s.exited, s.spawned  (history) the worker chain whose code    *)
(*               is running, the chains that called exitThread, and the    *)
(*               number of chains the spawn loop started                   *)
(***************************************************************************)
\* variant: the test of the sender does not depend on the test of the receiver
scanTransactionCallback_bothTests(s, txn, block) ==
  LET s1 == IF txn.to = Watched
              THEN [s EXCEPT !.results =
                      Append(@, [timestamp |-> block.timestamp, sign |-> "+", party |-> txn.from])]
              ELSE s
  IN IF txn.from = Watched
       THEN [s1 EXCEPT !.results =
               Append(@, [timestamp |-> block.timestamp, sign |-> "-", party |-> txn.to])]
       ELSE s1

scanTransactionCallback(s, txn, block) ==
  IF txn.to = Watched
    THEN [s EXCEPT !.results =
            Append(@, [timestamp |-> block.timestamp, sign |-> "+", party |-> txn.from])]
    ELSE IF txn.from = Watched
      THEN [s EXCEPT !.results =
              Append(@, [timestamp |-> block.timestamp, sign |-> "-", party |-> txn.to])]
      ELSE s

RECURSIVE scanTransactions(_, _, _)
scanTransactions(s, block, i) ==
  IF i > Len(block.transactions) THEN s
  ELSE scanTransactions(scanTransactionCallback(s, block.transactions[i], block), block, i + 1)

scanBlockCallback(s, block) ==
  scanTransactions([s EXCEPT !.inspected = Append(@, [h |-> block.timestamp, late |-> s.gotError])],
                   block, 1)

\* lines 325-328: the periodic status line
writeProgress(s, myBlockNumber) ==
  IF myBlockNumber % maxThreads = 0 \/ myBlockNumber = s.stoppingBlock
    THEN [s EXCEPT !.progress =
            Append(@, [h |-> myBlockNumber,
                       pctDone |-> getPercentComplete(s.startingBlock, s.stoppingBlock,
                                                      myBlockNumber),
                       w |-> s.self])]
    ELSE s

exitThread(s) ==
  LET n  == s.numThreads - 1
      s1 == [s EXCEPT !.numThreads = n,
                      !.callbackLog = IF n = 0 /\ s.callback
                                        THEN Append(@, [error |-> s.gotError, stop |-> s.stoppingBlock])
                                        ELSE @]
  IN [s1 EXCEPT !.promise = "resolved", !.exited = @ \cup {s.self}]

\* variant: the height cursor is read but not advanced
asyncScanNextBlock_noAdvance(s) ==
  IF s.gotError THEN exitThread(s)
  ELSE IF s.blockNumber > s.stoppingBlock THEN exitThread(s)
  ELSE LET myBlockNumber == s.blockNumber
       IN [writeProgress(s, myBlockNumber) EXCEPT
                    !.pending = @ \cup {[h |-> myBlockNumber, w |-> s.self]},
                    !.nodeLog = Append(@, [op |-> "getBlock", h |-> myBlockNumber, w |-> s.self])]

\* variant: the error flag is not consulted before the next height is claimed
asyncScanNextBlock_ignoreError(s) ==
  IF s.blockNumber > s.stoppingBlock THEN exitThread(s)
  ELSE LET myBlockNumber == s.blockNumber
       IN [writeProgress(s, myBlockNumber) EXCEPT
                    !.blockNumber = @ + 1,
                    !.pending = @ \cup {[h |-> myBlockNumber, w |-> s.self]},
                    !.nodeLog = Append(@, [op |-> "getBlock", h |-> myBlockNumber, w |-> s.self])]

asyncScanNextBlock(s) ==
  IF s.gotError THEN exitThread(s)
  ELSE IF s.blockNumber > s.stoppingBlock THEN exitThread(s)
  ELSE LET myBlockNumber == s.blockNumber
       IN [writeProgress(s, myBlockNumber) EXCEPT
                    !.blockNumber = @ + 1,
                    !.pending = @ \cup {[h |-> myBlockNumber, w |-> s.self]},
                    !.nodeLog = Append(@, [op |-> "getBlock", h |-> myBlockNumber, w |-> s.self])]

\* variant: the callback stores the outcome of its own fetch in the flag,
\* whatever the flag held
getBlockCallback_lastWriteWins(s, p, error) ==
  LET s0 == [s EXCEPT !.pending = @ \ {p}, !.self = p.w, !.gotError = error]
  IN IF error
       THEN s0
       ELSE asyncScanNextBlock(scanBlockCallback(s0, BlockAt(p.h)))

\* the callback passed to getBlock, run for the worker chain w
getBlockCallback(s, p, error) ==
  LET s0 == [s EXCEPT !.pending = @ \ {p}, !.self = p.w]
  IN IF error
       THEN [s0 EXCEPT !.gotError = TRUE]
       ELSE asyncScanNextBlock(scanBlockCallback(s0, BlockAt(p.h)))

\* variant: one worker chain per block, the pool size is not consulted
RECURSIVE spawnLoop_noCap(_, _)
spawnLoop_noCap(s, nt) ==
  IF s.startingBlock + nt <= s.stoppingBlock
    THEN spawnLoop_noCap(asyncScanNextBlock([s EXCEPT !.numThreads = @ + 1, !.self = nt + 1]),
                         nt + 1)
    ELSE [s EXCEPT !.spawned = nt]

RECURSIVE spawnLoop(_, _)
spawnLoop(s, nt) ==
  IF nt < maxThreads /\ s.startingBlock + nt <= s.stoppingBlock
    THEN spawnLoop(asyncScanNextBlock([s EXCEPT !.numThreads = @ + 1, !.self = nt + 1]), nt + 1)
    ELSE [s EXCEPT !.spawned = nt]

\* the executor of the promise, from the defaulting of startingBlock on
scanBody(s) ==
  LET s1 == [s EXCEPT !.startingBlock = IF Falsy(@) THEN s.stoppingBlock - 10 ELSE @]
  IN IF s1.startingBlock > s1.stoppingBlock
       THEN [s1 EXCEPT !.executor = "returned -1"]
       ELSE spawnLoop([s1 EXCEPT !.blockNumber = s1.startingBlock,
                                 !.gotError = FALSE,
                                 !.numThreads = 0,
                                 !.executor = "returned nt"], 0)

NoScan ==
  [startingBlock |-> Undefined, stoppingBlock |-> Undefined, callback |-> FALSE,
   blockNumber |-> 0, gotError |-> FALSE, numThreads |-> 0, results |-> << >>,
   pending |-> {}, nodeLog |-> << >>, inspected |-> << >>, promise |-> "none",
   progress |-> << >>,
   callbackLog |-> << >>, self |-> 0, exited |-> {}, spawned |-> 0,
   executor |-> "none", errors |-> 0, args |-> <<Undefined, Undefined>>]

(***************************************************************************)
(* Actions of the scanner.                                                 *)
(***************************************************************************)
StartArgs == {Undefined} \cup (0 .. MaxArg)
StopArgs == {Undefined} \cup (0 .. MaxArg) \cup {LongStop}

\* the caller calls scanBlockRange(a, b, cb)
ScanBlockRange ==
  /\ pc = "idle"
  /\ \E a \in StartArgs, b \in StopArgs, cb \in BOOLEAN :
       LET s == [NoScan EXCEPT !.startingBlock = a, !.stoppingBlock = b,
                               !.callback = cb, !.promise = "pending",
                               !.executor = "running", !.args = <<a, b>>]
       IN IF Falsy(b)
            THEN /\ scan' = [s EXCEPT !.nodeLog = Append(@, [op |-> "getBlockNumber", h |-> 0, w |-> 0])]
                 /\ pc' = "awaitHead"
            ELSE /\ scan' = scanBody(s)
                 /\ pc' = "scan"
  /\ UNCHANGED <<call, earlier>>

\* await getBlockNumber() yields the chain head
GetBlockNumberReturns ==
  /\ pc = "awaitHead"
  /\ \E head \in {HeadLow, HeadHigh} :
       scan' = scanBody([scan EXCEPT !.stoppingBlock = head])
  /\ pc' = "scan"
  /\ UNCHANGED <<call, earlier>>

\* await getBlockNumber() throws: the async executor's own promise rejects,
\* nothing settles the promise handed to the caller
GetBlockNumberFails ==
  /\ pc = "awaitHead"
  /\ pc' = "scan"
  /\ scan' = [scan EXCEPT !.executor = "threw"]
  /\ UNCHANGED <<call, earlier>>

\* the fetches the node may answer next
Answerable(P) ==
  IF Cardinality(P) <= MaxReorder THEN P
  ELSE {p \in P : \A q \in P : p.h <= q.h}

GetBlockReturns ==
  /\ pc = "scan"
  /\ \E p \in Answerable(scan.pending) :
       /\ BlockExists(p.h)
       /\ scan' = getBlockCallback(scan, p, FALSE)
  /\ UNCHANGED <<pc, call, earlier>>

GetBlockFails ==
  /\ pc = "scan"
  /\ scan.errors < MaxErrors
  /\ \E p \in Answerable(scan.pending) :
       scan' = [getBlockCallback(scan, p, TRUE) EXCEPT !.errors = @ + 1]
  /\ UNCHANGED <<pc, call, earlier>>

(***************************************************************************)
(* callFunction: the contract invoker, as functions on the state c of one  *)
(* invocation.                                                             *)
(*   c.at        where the invocation stands: awaitCode, awaitGas, sent    *)
(*               (send was called), called (method.call was called), done  *)
(*   c.nodeLog   every request sent to the node, in order                  *)
(*   c.promise, c.value  the promise returned to the caller                *)
(*   c.callerGas, c.ets  (history) the gas the caller passed and the       *)
(*               estimate the node returned                                *)
(*   c.fault     (history) the node request that failed, if one did; the   *)
(*               error it raised is named after the request                *)
(*   c.resolvedAt  (history) the confirmation number of the event whose    *)
(*               handler resolved the promise                              *)
(*   c.generalParams  the options object of the caller: callFunction       *)
(*               works on the object it was passed, not on a copy          *)
(*   c.ownGas    (history) the gas the caller itself wrote into the        *)
(*               options object                                            *)
(*   c.confirmationArg  (history) the confirmation mode the caller passed  *)
(***************************************************************************)
\* enum EthConfirmation
RECEIPT == 0
CONFIRMATION == 1
STATIC == 2

AbiEntry(n, c) == [name |-> n, constant |-> c]

\* this.abiConfiguration, the ABI the engine was constructed with
abiConfiguration ==
  << AbiEntry("pay", FALSE), AbiEntry("view", TRUE), AbiEntry("pay", TRUE) >>

\* an ABI a caller may pass for an ad-hoc contract
AdhocAbi ==
  << AbiEntry("swap", FALSE), AbiEntry("view", FALSE), AbiEntry("pay", TRUE) >>

\* the optional abi argument: omitted, or an ABI
NoAbi == [given |-> FALSE, entries |-> << >>]
GivenAbi(a) == [given |-> TRUE, entries |-> a]

\* the optional contractAddress argument, and configuration.contractAddress
NoAddress == "undefined"
BoundAddress == "0xBound"
AdhocAddress == "0xAdhoc"

\* variant: the entries are scanned from the end, the last match wins
RECURSIVE isMethodPayableFrom_lastMatch(_, _, _)
isMethodPayableFrom_lastMatch(name, abi, i) ==
  IF i > Len(abi) THEN FALSE
  ELSE IF abi[Len(abi) + 1 - i].name = name THEN ~abi[Len(abi) + 1 - i].constant
  ELSE isMethodPayableFrom_lastMatch(name, abi, i + 1)

RECURSIVE isMethodPayableFrom(_, _, _)
isMethodPayableFrom(name, abi, i) ==
  IF i > Len(abi) THEN FALSE
  ELSE IF abi[i].name = name THEN ~abi[i].constant
  ELSE isMethodPayableFrom(name, abi, i + 1)

isMethodPayable(name, abi) == isMethodPayableFrom(name, abi, 1)

\* contract.methods[name] is defined for the function names of the
\* contract's ABI only
HasMethod(abi, name) == \E i \in 1 .. Len(abi) : abi[i].name = name

\* variant: a later resolve or reject replaces the outcome
settle_overwrites(c, how, what) ==
  [c EXCEPT !.promise = how, !.value = what]

\* resolve and reject of the promise callFunction returns: the first one
\* settles it, later ones have no effect
settle(c, how, what) ==
  IF c.promise = "pending" THEN [c EXCEPT !.promise = how, !.value = what] ELSE c

\* variant: the STATIC case falls into a broadcast
dispatch_staticSends(c) ==
  IF ~HasMethod(c.contract.abi, c.name)
    THEN [settle(c, "rejected", "TypeError") EXCEPT !.at = "done"]
  ELSE IF c.confirmation \in {RECEIPT, CONFIRMATION, STATIC}
    THEN [c EXCEPT !.at = "sent",
                   !.nodeLog = Append(@, [op |-> "send", gas |-> c.generalParams.gas,
                                          gasLimit |-> c.generalParams.gasLimit])]
  ELSE [c EXCEPT !.at = "done"]

\* lines 130-165: the promise executor that dispatches the call
dispatch(c) ==
  IF ~HasMethod(c.contract.abi, c.name)
    THEN [settle(c, "rejected", "TypeError") EXCEPT !.at = "done"]
  ELSE IF c.confirmation \in {RECEIPT, CONFIRMATION}
    THEN [c EXCEPT !.at = "sent",
                   !.nodeLog = Append(@, [op |-> "send", gas |-> c.generalParams.gas,
                                          gasLimit |-> c.generalParams.gasLimit])]
  ELSE IF c.confirmation = STATIC
    THEN [c EXCEPT !.at = "called",
                   !.nodeLog = Append(@, [op |-> "call", gas |-> c.generalParams.gas,
                                          gasLimit |-> c.generalParams.gasLimit])]
  ELSE [c EXCEPT !.at = "done"]

\* lines 123-128: gas estimation, up to the await
estimate(c) ==
  IF c.generalParams.gas = Undefined /\ c.payable
    THEN [c EXCEPT !.at = "awaitGas",
                   !.nodeLog = Append(@, [op |-> "estimateGas", gas |-> Undefined,
                                          gasLimit |-> Undefined])]
    ELSE dispatch(c)

\* variant: the error of the awaited request is swallowed and the call is
\* dispatched all the same
awaitThrows_swallowed(c, op) ==
  [dispatch(c) EXCEPT !.fault = op]

\* an awaited request (lines 113, 125) throws: callFunction is an async
\* function, its promise rejects with the error and nothing further runs
awaitThrows(c, op) ==
  [settle(c, "rejected", op) EXCEPT !.at = "done", !.fault = op]

\* lines 137-139, 146-148: send(...).catch(err => reject(err))
sendCatch(c) ==
  [settle(c, "rejected", "send") EXCEPT !.at = "done", !.fault = "send"]

\* lines 135-136: on("receipt", rec => resolve(rec)), RECEIPT mode only
onReceipt(c) ==
  IF c.confirmation = RECEIPT THEN settle(c, "resolved", "receipt") ELSE c

\* lines 143-145: on("confirmation", (confNumber, receipt) => ...),
\* CONFIRMATION mode only
onConfirmation(c, confNumber) ==
  IF c.confirmation = CONFIRMATION
    THEN settle([c EXCEPT !.receipt.confNumber = confNumber,
                          !.resolvedAt = IF c.promise = "pending" THEN confNumber ELSE @],
                "resolved", "receipt")
    ELSE c

\* variant: the limit is not doubled
applyEstimate_noMargin(generalParams, ets) ==
  [generalParams EXCEPT !.gas = ets, !.gasLimit = ets]

\* lines 126-127: the gas plan written into the caller's options
applyEstimate(generalParams, ets) ==
  [generalParams EXCEPT !.gas = ets, !.gasLimit = ets * 2]

\* lines 115-116, after the code of an ad-hoc contract is known
adhocContract(c) ==
  estimate([c EXCEPT !.contract = [abi |-> c.abi.entries, address |-> c.contractAddress]])

\* lines 102-121: callFunction up to its first await
callFunction(name, generalParams, confirmation, abi, contractAddress) ==
  LET c == [name |-> name, generalParams |-> generalParams,
            confirmation |-> IF confirmation = Undefined THEN 0 ELSE confirmation,
            abi |-> abi, contractAddress |-> contractAddress,
            payable |-> isMethodPayable(name, IF ~abi.given THEN abiConfiguration
                                               ELSE abi.entries),
            contract |-> [abi |-> << >>, address |-> NoAddress],
            code |-> "null", at |-> "start", nodeLog |-> << >>,
            promise |-> "pending", value |-> "none",
            receipt |-> [mined |-> FALSE, confNumber |-> Undefined],
            confirmations |-> 0, callerGas |-> generalParams.gas, ets |-> Undefined,
            fault |-> "none", resolvedAt |-> Undefined,
            ownGas |-> generalParams.gas, confirmationArg |-> confirmation]
  IN IF abi.given /\ contractAddress # NoAddress
       THEN IF c.payable
              THEN [c EXCEPT !.at = "awaitCode",
                             !.nodeLog = Append(@, [op |-> "getCode", gas |-> Undefined,
                                                    gasLimit |-> Undefined])]
              ELSE adhocContract(c)
       ELSE estimate([c EXCEPT !.code = "bin.code",
                               !.contract = [abi |-> abiConfiguration,
                                             address |-> BoundAddress]])

NoCall ==
  [name |-> "", generalParams |-> [gas |-> Undefined, gasLimit |-> Undefined],
   confirmation |-> 0, abi |-> NoAbi, contractAddress |-> NoAddress,
   payable |-> FALSE, contract |-> [abi |-> << >>, address |-> NoAddress],
   code |-> "null", at |-> "none", nodeLog |-> << >>,
   promise |-> "none", value |-> "none",
   receipt |-> [mined |-> FALSE, confNumber |-> Undefined],
   confirmations |-> 0, callerGas |-> Undefined, ets |-> Undefined,
   fault |-> "none", resolvedAt |-> Undefined, ownGas |-> Undefined,
   confirmationArg |-> Undefined]

(***************************************************************************)
(* Actions of the invoker.                                                 *)
(***************************************************************************)
Methods == {"pay", "view", "swap", "none"}

\* the caller calls callFunction(name, params, generalParams, confirmation,
\* abi, contractAddress)
CallFunction ==
  /\ pc = "idle"
  /\ \E name \in Methods, gas \in {Undefined, CallerGas},
        confirmation \in {Undefined, RECEIPT, CONFIRMATION, STATIC},
        abi \in {NoAbi, GivenAbi(AdhocAbi)},
        contractAddress \in {NoAddress, AdhocAddress} :
       call' = callFunction(name, [gas |-> gas, gasLimit |-> Undefined],
                            confirmation, abi, contractAddress)
  /\ pc' = "call"
  /\ UNCHANGED <<scan, earlier>>

\* await getContractCode(contractAddress) yields the bytecode
GetCodeReturns ==
  /\ pc = "call" /\ call.at = "awaitCode"
  /\ call' = adhocContract([call EXCEPT !.code = "bytecode"])
  /\ UNCHANGED <<pc, scan, earlier>>

\* await getContractCode throws: the async function's promise rejects
GetCodeFails ==
  /\ pc = "call" /\ call.at = "awaitCode"
  /\ call' = awaitThrows(call, "getCode")
  /\ UNCHANGED <<pc, scan, earlier>>

\* await estimateGas yields ets (lines 125-127), then the call is dispatched
EstimateGasReturns ==
  /\ pc = "call" /\ call.at = "awaitGas"
  /\ \E ets \in 1 .. MaxEstimate :
       call' = dispatch([call EXCEPT !.generalParams = applyEstimate(@, ets),
                                     !.ets = ets])
  /\ UNCHANGED <<pc, scan, earlier>>

\* await estimateGas throws
EstimateGasFails ==
  /\ pc = "call" /\ call.at = "awaitGas"
  /\ call' = awaitThrows(call, "estimateGas")
  /\ UNCHANGED <<pc, scan, earlier>>

\* the node reports the transaction mined: event "receipt"
SendReceipt ==
  /\ pc = "call" /\ call.at = "sent"
  /\ ~call.receipt.mined
  /\ call' = onReceipt([call EXCEPT !.receipt.mined = TRUE])
  /\ UNCHANGED <<pc, scan, earlier>>

\* event "confirmation" with the next confirmation number; web3 numbers
\* the confirmations from 0, the block the transaction was mined in
SendConfirmation ==
  /\ pc = "call" /\ call.at = "sent"
  /\ call.confirmations <= MaxConf
  /\ call' = onConfirmation([call EXCEPT !.confirmations = @ + 1], call.confirmations)
  /\ UNCHANGED <<pc, scan, earlier>>

\* the broadcast fails: the promise returned by send rejects
SendFails ==
  /\ pc = "call" /\ call.at = "sent"
  /\ ~call.receipt.mined /\ call.confirmations = 0
  /\ call' = sendCatch(call)
  /\ UNCHANGED <<pc, scan, earlier>>

\* the promise returned by send rejects after the invocation was settled
\* by an event (a transaction that was mined and then reported reverted)
SendFailsLate ==
  /\ pc = "call" /\ call.at = "sent"
  /\ call.promise # "pending"
  /\ call' = [settle(call, "rejected", "send") EXCEPT !.at = "done"]
  /\ UNCHANGED <<pc, scan, earlier>>

\* the callback of method.call runs with a result, or with an error
CallReturns ==
  /\ pc = "call" /\ call.at = "called"
  /\ call' = [settle(call, "resolved", "result") EXCEPT !.at = "done"]
  /\ UNCHANGED <<pc, scan, earlier>>

CallFails ==
  /\ pc = "call" /\ call.at = "called"
  /\ call' = [settle(call, "rejected", "call") EXCEPT !.at = "done", !.fault = "call"]
  /\ UNCHANGED <<pc, scan, earlier>>


(***************************************************************************)
(* Two invocations with one options object: when the promise of an         *)
(* invocation is settled the caller calls callFunction again and passes    *)
(* the options object of the settled invocation, as callFunction left it.  *)
(***************************************************************************)
CallFunctionAgain ==
  /\ pc = "call"
  /\ call.promise \in {"resolved", "rejected"}
  /\ \E name \in Methods,
        confirmation \in {Undefined, RECEIPT, CONFIRMATION, STATIC},
        abi \in {NoAbi, GivenAbi(AdhocAbi)},
        contractAddress \in {NoAddress, AdhocAddress} :
       call' = [callFunction(name, call.generalParams, confirmation, abi, contractAddress)
                  EXCEPT !.ownGas = call.ownGas]
  /\ UNCHANGED <<pc, scan, earlier>>

NextReuse ==
  \/ CallFunction
  \/ CallFunctionAgain
  \/ GetCodeReturns
  \/ GetCodeFails
  \/ EstimateGasReturns
  \/ EstimateGasFails
  \/ SendReceipt
  \/ SendConfirmation
  \/ SendFails
  \/ SendFailsLate
  \/ CallReturns
  \/ CallFails

(***************************************************************************)
(* getPercentComplete on its own: every range of up to MaxSpan blocks      *)
(* above a starting height, the percentage computed for each height of     *)
(* the range in turn.                                                      *)
(***************************************************************************)
PercentInit ==
  /\ pc = "percent"
  /\ call = NoCall
  /\ earlier = NoScan
  /\ \E a \in 0 .. MaxArg, span \in 1 .. MaxSpan :
       scan = [NoScan EXCEPT !.startingBlock = a, !.stoppingBlock = a + span,
                             !.blockNumber = a]

ComputePercent ==
  /\ pc = "percent"
  /\ scan.blockNumber <= scan.stoppingBlock
  /\ scan' = [scan EXCEPT
                !.blockNumber = @ + 1,
                !.progress = << [h |-> scan.blockNumber,
                                 pctDone |-> getPercentComplete(scan.startingBlock,
                                                                scan.stoppingBlock,
                                                                scan.blockNumber),
                                 w |-> 0] >>]
  /\ UNCHANGED <<pc, call, earlier>>

SpecPercent == PercentInit /\ [][ComputePercent]_vars

Init ==
  /\ pc = "idle"
  /\ scan = NoScan
  /\ call = NoCall
  /\ earlier = NoScan

Next ==
  \/ ScanBlockRange
  \/ GetBlockNumberReturns
  \/ GetBlockNumberFails
  \/ GetBlockReturns
  \/ GetBlockFails
  \/ CallFunction
  \/ GetCodeReturns
  \/ GetCodeFails
  \/ EstimateGasReturns
  \/ EstimateGasFails
  \/ SendReceipt
  \/ SendConfirmation
  \/ SendFails
  \/ SendFailsLate
  \/ CallReturns
  \/ CallFails

Spec == Init /\ [][Next]_vars

\* two invocations with one options object
SpecReuse == Init /\ [][NextReuse]_vars

(***************************************************************************)
(* Two scans of one engine.  Every call of scanBlockRange makes its own    *)
(* results, blockNumber, gotError and numThreads (lines 227 and 246-248)   *)
(* and its own closures over them, so the getBlock callbacks of a scan     *)
(* that was started earlier go on working on that scan's state.  scan is   *)
(* the scan that was started last, earlier the one started before it.      *)
(***************************************************************************)
\* the caller calls scanBlockRange(a, b) for a short range of blocks
ScanShort ==
  /\ pc = "idle"
  /\ \E a \in 1 .. ShortStop, b \in 1 .. ShortStop :
       /\ a <= b
       /\ scan' = scanBody([NoScan EXCEPT !.startingBlock = a, !.stoppingBlock = b,
                                          !.promise = "pending", !.executor = "running",
                                          !.args = <<a, b>>])
  /\ pc' = "scan"
  /\ UNCHANGED <<call, earlier>>

\* the caller calls scanBlockRange(a, b) again, the first scan finished or not
ScanAgain ==
  /\ pc = "scan"
  /\ earlier = NoScan
  /\ earlier' = scan
  /\ \E a \in 1 .. ShortStop, b \in 1 .. ShortStop :
       /\ a <= b
       /\ scan' = scanBody([NoScan EXCEPT !.startingBlock = a, !.stoppingBlock = b,
                                          !.promise = "pending", !.executor = "running",
                                          !.args = <<a, b>>])
  /\ UNCHANGED <<pc, call>>

EarlierGetBlockReturns ==
  /\ pc = "scan"
  /\ \E p \in Answerable(earlier.pending) :
       /\ BlockExists(p.h)
       /\ earlier' = getBlockCallback(earlier, p, FALSE)
  /\ UNCHANGED <<pc, scan, call>>

\* variant: the error flag is one flag of the engine, shared by its scans
EarlierGetBlockFails_sharedFlag ==
  /\ pc = "scan"
  /\ earlier.errors < MaxErrors
  /\ \E p \in Answerable(earlier.pending) :
       earlier' = [getBlockCallback(earlier, p, TRUE) EXCEPT !.errors = @ + 1]
  /\ scan' = [scan EXCEPT !.gotError = TRUE]
  /\ UNCHANGED <<pc, call>>

EarlierGetBlockFails ==
  /\ pc = "scan"
  /\ earlier.errors < MaxErrors
  /\ \E p \in Answerable(earlier.pending) :
       earlier' = [getBlockCallback(earlier, p, TRUE) EXCEPT !.errors = @ + 1]
  /\ UNCHANGED <<pc, scan, call>>

NextRescan ==
  \/ ScanShort
  \/ ScanAgain
  \/ GetBlockReturns
  \/ GetBlockFails
  \/ EarlierGetBlockReturns
  \/ EarlierGetBlockFails

SpecRescan == Init /\ [][NextRescan]_vars

(***************************************************************************)
(* Views of the state used by the properties.                              *)
(***************************************************************************)
IsGetBlock(e) == e.op = "getBlock"

\* the getBlock requests of the scan, in the order they were issued
Issued == SelectSeq(scan.nodeLog, IsGetBlock)

\* the spawn loop has run
Started == scan.executor = "returned nt"

RangeSize == scan.stoppingBlock - scan.startingBlock + 1

Min(a, b) == IF a <= b THEN a ELSE b

HasOp(log, op) == \E i \in 1 .. Len(log) : log[i].op = op

\* heights of the blocks that were inspected while gotError was already set
LateHeights == {scan.inspected[i].h : i \in {j \in 1 .. Len(scan.inspected) : scan.inspected[j].late}}

(***************************************************************************)
(* C1.  The heights for which getBlock is issued are claimed in strictly   *)
(* increasing order starting at startingBlock, no height twice (so each    *)
(* by one worker only) and none beyond stoppingBlock; when no fetch has    *)
(* failed and none is outstanding they are exactly                         *)
(* startingBlock..stoppingBlock, stoppingBlock - startingBlock + 1         *)
(* fetches.                                                                *)
(***************************************************************************)
C1_EveryHeightOnce ==
  Started =>
    LET issued == Issued
        heights == {issued[i].h : i \in 1 .. Len(issued)}
    IN /\ \A i \in 1 .. Len(issued) : issued[i].h = scan.startingBlock + i - 1
       /\ Cardinality(heights) = Len(issued)
       /\ Len(issued) <= RangeSize
       /\ (scan.errors = 0 /\ scan.pending = {}) =>
            /\ Len(issued) = RangeSize
            /\ heights = scan.startingBlock .. scan.stoppingBlock

\* a finished scan, longer than the pool, without a failed fetch: some
\* worker chain claimed more than one height
C1_Witness ==
  /\ Started /\ scan.errors = 0 /\ scan.pending = {}
  /\ RangeSize > maxThreads
  /\ Len(Issued) = RangeSize
  /\ \E e \in scan.exited : Cardinality({i \in 1 .. Len(Issued) : Issued[i].w = e}) > 1

(***************************************************************************)
(* C2.  The promise returned by scanBlockRange is resolved only when no    *)
(* block fetch is in flight any more (every worker has exited).            *)
(***************************************************************************)
C2_Claim ==
  scan.promise = "resolved" => scan.pending = {}

(***************************************************************************)
(* C3.  Every scan request yields an outcome: once the node has answered   *)
(* every request of the scan (nothing is left that could run code of the   *)
(* scan), the promise has been settled.                                    *)
(***************************************************************************)
C3_Claim ==
  (pc = "scan" /\ scan.pending = {}) => scan.promise \in {"resolved", "rejected"}

(***************************************************************************)
(* C4.  A request whose resolved startingBlock is greater than its         *)
(* stoppingBlock is reported to the caller as a failure, no getBlock is    *)
(* issued for it, and with both bounds supplied no request at all is sent  *)
(* to the node.                                                            *)
(***************************************************************************)
C4_Claim ==
  (scan.executor \in {"returned -1", "returned nt"} /\ scan.startingBlock > scan.stoppingBlock) =>
    /\ scan.promise = "rejected" \/ Len(scan.callbackLog) > 0
    /\ Len(Issued) = 0
    /\ (~Falsy(scan.args[1]) /\ ~Falsy(scan.args[2])) => scan.nodeLog = << >>

(***************************************************************************)
(* C5.  When a block fetch has failed, the outcome delivered to the caller *)
(* is marked partial (the completion callback reports the error), and the  *)
(* results hold no transfer of a block that was inspected after the error  *)
(* flag was set.                                                           *)
(***************************************************************************)
C5_Claim ==
  (scan.promise = "resolved" /\ scan.errors > 0) =>
    /\ \E i \in 1 .. Len(scan.callbackLog) : scan.callbackLog[i].error
    /\ \A i \in 1 .. Len(scan.results) : scan.results[i].timestamp \notin LateHeights

(***************************************************************************)
(* C6.  Cooperative cancellation.  The step in which a fetch fails sets    *)
(* gotError and issues no getBlock; once gotError is set no step issues a  *)
(* getBlock or moves the height cursor; and no step removes a fetch from   *)
(* the outstanding ones other than the one fetch whose answer it handles.  *)
(***************************************************************************)
C6_CooperativeCancel ==
  [][ /\ (scan.gotError \/ scan'.gotError) =>
           /\ scan'.nodeLog = scan.nodeLog
           /\ scan'.blockNumber = scan.blockNumber
           /\ scan'.pending \subseteq scan.pending
           /\ Cardinality(scan.pending \ scan'.pending) <= 1
      /\ scan.gotError => scan'.gotError
    ]_vars

\* after the flag was set, a fetch that was in flight completed and its block
\* was inspected, while another one is still in flight
C6_Witness ==
  /\ scan.gotError
  /\ \E i \in 1 .. Len(scan.inspected) : scan.inspected[i].late
  /\ scan.pending # {}

(***************************************************************************)
(* C7.  The number of block fetches in flight never exceeds                *)
(* min(maxThreads, stoppingBlock - startingBlock + 1), with maxThreads 20, *)
(* and the spawn loop starts no more workers than that.                    *)
(***************************************************************************)
C7_PoolBound ==
  Started =>
    /\ maxThreads = 20
    /\ Cardinality(scan.pending) <= Min(maxThreads, RangeSize)
    /\ scan.spawned <= Min(maxThreads, RangeSize)
    /\ scan.numThreads <= scan.spawned

\* a scan of 25 blocks with 20 fetches in flight
C7_Witness ==
  /\ Started
  /\ RangeSize = 25
  /\ Cardinality(scan.pending) = 20

C9_Claim ==
  (pc = "call" /\ call.contract.address # NoAddress) =>
    /\ call.contract = IF call.abi.given /\ call.contractAddress # NoAddress
                         THEN [abi |-> call.abi.entries, address |-> call.contractAddress]
                         ELSE [abi |-> abiConfiguration, address |-> BoundAddress]
    /\ call.payable = isMethodPayable(call.name, call.contract.abi)

(***************************************************************************)
(* C10.  estimateGas is requested only for a payable method invoked        *)
(* without gas; once it has returned ets the caller's options hold         *)
(* gas = ets and gasLimit = 2 * ets, and these are the options every       *)
(* dispatch (send or call) of that invocation carries.                     *)
(***************************************************************************)
C10_GasPlan ==
  pc = "call" =>
    /\ HasOp(call.nodeLog, "estimateGas") => (call.payable /\ call.callerGas = Undefined)
    /\ call.ets # Undefined =>
         /\ call.generalParams.gas = call.ets
         /\ call.generalParams.gasLimit = 2 * call.ets
    /\ \A i \in 1 .. Len(call.nodeLog) :
         (call.nodeLog[i].op \in {"send", "call"} /\ call.payable /\ call.callerGas = Undefined) =>
           /\ call.ets # Undefined
           /\ call.nodeLog[i].gas = call.ets
           /\ call.nodeLog[i].gasLimit = 2 * call.ets

\* a payable method broadcast with the gas plan of the largest estimate
C10_Witness ==
  /\ pc = "call" /\ call.payable /\ call.callerGas = Undefined
  /\ call.ets = MaxEstimate
  /\ \E i \in 1 .. Len(call.nodeLog) :
       call.nodeLog[i].op = "send" /\ call.nodeLog[i].gasLimit = 2 * MaxEstimate

(***************************************************************************)
(* Views of an invocation used by the properties.                          *)
(***************************************************************************)
\* the ABI the payability lookup of line 108 is given
LookupAbi == IF call.abi.given THEN call.abi.entries ELSE abiConfiguration

\* the positions of the entries named like the invoked method
Matches == {i \in 1 .. Len(LookupAbi) : LookupAbi[i].name = call.name}

\* abi and contractAddress were both supplied
Adhoc == call.abi.given /\ call.contractAddress # NoAddress

CountOp(log, op) == Cardinality({i \in 1 .. Len(log) : log[i].op = op})

(***************************************************************************)
(* C11.  The payability of the invoked method is the answer of the first   *)
(* ABI entry carrying its name (payable iff that entry is not constant);   *)
(* a method with no entry is not payable, no estimateGas is requested for  *)
(* it, and the options keep the gas the caller passed and no gasLimit, in  *)
(* the caller's object and in every dispatch.                              *)
(***************************************************************************)
C11_FirstMatchDecides ==
  pc = "call" =>
    /\ Matches # {} =>
         \E i \in Matches :
           /\ \A j \in Matches : i <= j
           /\ call.payable = ~LookupAbi[i].constant
    /\ Matches = {} =>
         /\ ~call.payable
         /\ ~HasOp(call.nodeLog, "estimateGas")
         /\ call.generalParams = [gas |-> call.callerGas, gasLimit |-> Undefined]
         /\ \A i \in 1 .. Len(call.nodeLog) :
              call.nodeLog[i].op \in {"send", "call"} =>
                /\ call.nodeLog[i].gas = call.callerGas
                /\ call.nodeLog[i].gasLimit = Undefined

\* a method with two entries of its name, payable by the first of them and
\* constant by the second, was found payable
C11_Witness ==
  /\ pc = "call"
  /\ Cardinality(Matches) > 1
  /\ \E i, j \in Matches : i < j /\ ~LookupAbi[i].constant /\ LookupAbi[j].constant
  /\ call.payable
  /\ HasOp(call.nodeLog, "estimateGas")

(***************************************************************************)
(* C12.  getCode is requested only for a payable method of an ad-hoc       *)
(* contract invoked without gas, and an invocation with gas supplied       *)
(* sends neither getCode nor estimateGas to the node.                      *)
(***************************************************************************)
C12_Claim ==
  pc = "call" =>
    /\ HasOp(call.nodeLog, "getCode") =>
         (call.payable /\ Adhoc /\ call.callerGas = Undefined)
    /\ call.callerGas # Undefined =>
         (~HasOp(call.nodeLog, "getCode") /\ ~HasOp(call.nodeLog, "estimateGas"))

(***************************************************************************)
(* C13.  When getCode or estimateGas failed the invocation is rejected     *)
(* with that error and nothing was dispatched; when the broadcast failed   *)
(* the invocation is rejected with that error; no invocation calls send    *)
(* more than once.                                                         *)
(***************************************************************************)
C13_FailedNeverBroadcasts ==
  pc = "call" =>
    /\ CountOp(call.nodeLog, "send") <= 1
    /\ call.fault \in {"getCode", "estimateGas"} =>
         /\ call.promise = "rejected" /\ call.value = call.fault
         /\ call.at = "done"
         /\ ~HasOp(call.nodeLog, "send") /\ ~HasOp(call.nodeLog, "call")
    /\ call.fault = "send" =>
         /\ call.promise = "rejected" /\ call.value = "send"
         /\ call.at = "done"
         /\ CountOp(call.nodeLog, "send") = 1

\* the gas estimation of an invocation failed
C13_Witness ==
  /\ pc = "call"
  /\ call.fault = "estimateGas"
  /\ call.promise = "rejected"

(***************************************************************************)
(* C14.  In CONFIRMATION mode the promise is not resolved by a             *)
(* confirmation event of lower depth than requested: it is resolved with   *)
(* the receipt of a confirmation of depth 1 at least (a block on top of    *)
(* the one the transaction was mined in); in RECEIPT mode it is resolved   *)
(* only once the transaction is reported mined.                            *)
(***************************************************************************)
C14_Claim ==
  (pc = "call" /\ call.promise = "resolved") =>
    /\ call.confirmation = CONFIRMATION =>
         (call.resolvedAt >= 1 /\ call.receipt.confNumber = call.resolvedAt)
    /\ call.confirmation = RECEIPT => call.receipt.mined

(***************************************************************************)
(* C15.  The percentages one worker chain reports never decrease, and a    *)
(* scan that ended without a failed fetch has reported 100 for its         *)
(* stopping height, the scan of a single block included.                   *)
(***************************************************************************)
Succeeded == pc = "scan" /\ Started /\ scan.errors = 0 /\ scan.pending = {}

C15_Claim ==
  pc = "scan" =>
    /\ \A i, j \in 1 .. Len(scan.progress) :
         i < j /\ scan.progress[i].w = scan.progress[j].w
           => scan.progress[i].pctDone <= scan.progress[j].pctDone
    /\ Succeeded =>
         \E i \in 1 .. Len(scan.progress) :
           /\ scan.progress[i].h = scan.stoppingBlock
           /\ scan.progress[i].pctDone = 100

(***************************************************************************)
(* C16.  For a range of at least two heights the percentage computed for   *)
(* a height h of it is floor((h - start) * 100 / (stop - start)): a        *)
(* number in 0..100, 0 at the start and 100 at the stop.                   *)
(***************************************************************************)
C16_Claim ==
  pc = "percent" =>
    \A i \in 1 .. Len(scan.progress) :
      LET p == scan.progress[i]
          n == p.h - scan.startingBlock
          t == scan.stoppingBlock - scan.startingBlock
      IN /\ p.pctDone = (n * 100) \div t
         /\ p.pctDone \in 0 .. 100
         /\ p.h = scan.startingBlock => p.pctDone = 0
         /\ p.h = scan.stoppingBlock => p.pctDone = 100

(***************************************************************************)
(* C17.  Once the range is resolved, the stopping height is the chain      *)
(* head exactly when the caller passed none and the starting height is     *)
(* the stopping height less 10 exactly when the caller passed none; a      *)
(* height the caller passed, 0 included, is used as passed.  With neither  *)
(* passed the range has 11 heights.                                        *)
(***************************************************************************)
Resolved == pc = "scan" /\ scan.executor \in {"returned -1", "returned nt"}

C17_Claim ==
  Resolved =>
    /\ HasOp(scan.nodeLog, "getBlockNumber") <=> scan.args[2] = Undefined
    /\ scan.args[2] # Undefined => scan.stoppingBlock = scan.args[2]
    /\ scan.args[2] = Undefined => scan.stoppingBlock \in {HeadLow, HeadHigh}
    /\ scan.args[1] # Undefined => scan.startingBlock = scan.args[1]
    /\ scan.args[1] = Undefined => scan.startingBlock = scan.stoppingBlock - 10
    /\ scan.args = <<Undefined, Undefined>> => RangeSize = 11

(***************************************************************************)
(* C18.  Every transaction of every inspected block leaves one credit      *)
(* record if it pays the watched address, else one debit record if the     *)
(* watched address pays, else none: inspecting a block appends exactly     *)
(* the records of its transactions touching the watched address, nothing   *)
(* else changes the accumulator, each block is inspected once, and after   *)
(* a scan without a failed fetch every height of the range was inspected.  *)
(***************************************************************************)
Touches(txn) == txn.to = Watched \/ txn.from = Watched

\* the records the transactions of a block call for
Transfers(block) ==
  LET touching == SelectSeq(block.transactions, Touches)
  IN [i \in 1 .. Len(touching) |->
        IF touching[i].to = Watched
          THEN [timestamp |-> block.timestamp, sign |-> "+", party |-> touching[i].from]
          ELSE [timestamp |-> block.timestamp, sign |-> "-", party |-> touching[i].to]]

InspectedHeights == {scan.inspected[i].h : i \in 1 .. Len(scan.inspected)}

\* every step that inspects a block appends the records of that block, no
\* other step changes the accumulator
C18_OneRecordPerTransfer ==
  [][ /\ scan'.inspected = scan.inspected => scan'.results = scan.results
      /\ scan'.inspected # scan.inspected =>
           /\ Len(scan'.inspected) = Len(scan.inspected) + 1
           /\ SubSeq(scan'.inspected, 1, Len(scan.inspected)) = scan.inspected
           /\ LET h == scan'.inspected[Len(scan'.inspected)].h
              IN /\ h \in scan.startingBlock .. scan.stoppingBlock
                 /\ h \notin InspectedHeights
                 /\ scan'.results = scan.results \o Transfers(BlockAt(h))
      /\ Succeeded' => InspectedHeights' = scan'.startingBlock .. scan'.stoppingBlock
    ]_vars

\* the scan of one block whose only transaction touching the watched address
\* is sent from it has ended with one debit
C18_Witness ==
  /\ Succeeded
  /\ scan.startingBlock = scan.stoppingBlock
  /\ Len(BlockAt(scan.startingBlock).transactions) > 1
  /\ Len(scan.results) = 1
  /\ scan.results[1].sign = "-"

(***************************************************************************)
(* C20.  Every worker chain the spawn loop started exits, once, whatever   *)
(* stopped it: when the node has answered every fetch of the scan (no      *)
(* code of the scan is left to run) each chain has called exitThread, the  *)
(* counter of live chains is back at 0, and a completion callback, if one  *)
(* was passed, has been invoked exactly once, with the error flag.         *)
(***************************************************************************)
Quiescent == pc = "scan" /\ Started /\ scan.pending = {}

C20_Claim ==
  Quiescent =>
    /\ scan.exited = 1 .. scan.spawned
    /\ scan.numThreads = 0
    /\ scan.callback =>
         /\ Len(scan.callbackLog) = 1
         /\ scan.callbackLog[1].error = scan.gotError

(***************************************************************************)
(* C19.  A scan started after another one, or while it is still running,   *)
(* has its own error flag, accumulator, cursor and worker counter: its     *)
(* flag is set by its own failed fetches only, its accumulator holds the   *)
(* transfers of the blocks it inspected and no others, its fetches are     *)
(* those of the heights from its own starting block on, and without a      *)
(* failed fetch of its own it visits its whole range, whatever happened    *)
(* to the other scan.                                                      *)
(***************************************************************************)
C19_ScansAreIsolated ==
  earlier # NoScan =>
    /\ scan.gotError <=> scan.errors > 0
    /\ \A h \in scan.startingBlock .. scan.stoppingBlock :
         SelectSeq(scan.results, LAMBDA rec : rec.timestamp = h)
           = IF h \in InspectedHeights THEN Transfers(BlockAt(h)) ELSE << >>
    /\ \A i \in 1 .. Len(scan.results) :
         scan.results[i].timestamp \in scan.startingBlock .. scan.stoppingBlock
    /\ LET issued == Issued
       IN /\ \A i \in 1 .. Len(issued) : issued[i].h = scan.startingBlock + i - 1
          /\ scan.blockNumber = scan.startingBlock + Len(issued)
          /\ scan.errors = 0 /\ scan.pending = {} => Len(issued) = RangeSize
    /\ scan.numThreads = scan.spawned - Cardinality(scan.exited)
    /\ scan.errors = 0 /\ scan.pending = {} =>
         InspectedHeights = scan.startingBlock .. scan.stoppingBlock

\* a scan started while a scan with a failed fetch was still waiting for
\* another answer has visited its whole range and holds transfers
C19_Witness ==
  /\ earlier.gotError
  /\ earlier.inspected # << >>
  /\ Succeeded
  /\ scan.startingBlock < scan.stoppingBlock
  /\ scan.results # << >>

(***************************************************************************)
(* C21.  Whatever the order in which the fetches are answered, the         *)
(* counter of live worker chains lies between 0 and the number of chains   *)
(* the spawn loop started and equals the number of started chains that     *)
(* have not called exitThread, and the error flag stays set once a fetch   *)
(* of the scan has failed.                                                 *)
(***************************************************************************)
C21_CounterAndFlag ==
  pc = "scan" =>
    /\ 0 <= scan.numThreads
    /\ scan.numThreads <= scan.spawned
    /\ scan.exited \subseteq 1 .. scan.spawned
    /\ scan.numThreads = scan.spawned - Cardinality(scan.exited)
    /\ scan.errors > 0 => scan.gotError

\* after a failed fetch two other chains have had their blocks and exited,
\* one after the other, and the chain of the failed fetch is still counted
C21_Witness ==
  /\ pc = "scan"
  /\ scan.gotError
  /\ Cardinality(scan.exited) >= 2
  /\ scan.numThreads >= 1

(***************************************************************************)
(* C22.  An invocation leaves the options object of the caller as the      *)
(* caller wrote it: when the promise is settled, gas is what the caller    *)
(* put there and gasLimit is unset; so an invocation of a payable method   *)
(* with an options object in which the caller never set gas, reused or     *)
(* not, asks the node for an estimate before it is dispatched.             *)
(***************************************************************************)
C22_Claim ==
  pc = "call" =>
    /\ call.promise \in {"resolved", "rejected"} =>
         call.generalParams = [gas |-> call.ownGas, gasLimit |-> Undefined]
    /\ (call.payable /\ call.ownGas = Undefined /\ call.at \in {"sent", "called"}) =>
         HasOp(call.nodeLog, "estimateGas")

(***************************************************************************)
(* C23.  An invocation goes from pending, through the gas estimation or    *)
(* past it, to the dispatch and to one outcome.  No send or call is        *)
(* issued before an estimation that is required (payable method, no gas    *)
(* from the caller) has returned, and the dispatch is the last request.    *)
(* The promise is resolved only after the dispatch, and it is settled      *)
(* when the node has answered: when an awaited request threw, when the     *)
(* read call came back, when a receipt (RECEIPT) or a confirmation         *)
(* (CONFIRMATION) was reported, or when the broadcast failed.  An omitted  *)
(* confirmation mode is RECEIPT.  Once the promise is settled no later     *)
(* event, be it a further confirmation or a late error, changes the        *)
(* outcome or its value.                                                   *)
(***************************************************************************)
Settled == call.promise \in {"resolved", "rejected"}

Dispatched == HasOp(call.nodeLog, "send") \/ HasOp(call.nodeLog, "call")

C23_Stages ==
  pc = "call" =>
    /\ call.promise \in {"pending", "resolved", "rejected"}
    /\ call.confirmation \in {RECEIPT, CONFIRMATION, STATIC}
    /\ call.confirmationArg = Undefined => call.confirmation = RECEIPT
    /\ \A i \in 1 .. Len(call.nodeLog) :
         call.nodeLog[i].op \in {"send", "call"} =>
           /\ i = Len(call.nodeLog)
           /\ (call.payable /\ call.callerGas = Undefined) =>
                /\ call.ets # Undefined
                /\ \E j \in 1 .. i - 1 : call.nodeLog[j].op = "estimateGas"
    /\ call.at \in {"awaitCode", "awaitGas"} => ~Dispatched /\ ~Settled
    /\ call.at = "called" => ~Settled
    /\ call.promise = "resolved" => Dispatched
    /\ call.at = "done" => Settled
    /\ (call.at = "sent" /\ call.confirmation = RECEIPT /\ call.receipt.mined) => Settled
    /\ (call.at = "sent" /\ call.confirmation = CONFIRMATION /\ call.confirmations >= 1)
         => Settled
    /\ (call.confirmationArg = Undefined /\ call.promise = "resolved") =>
         /\ HasOp(call.nodeLog, "send")
         /\ call.receipt.mined

C23_OutcomeFinal ==
  (pc = "call" /\ pc' = "call" /\ Settled) =>
    /\ call'.promise = call.promise
    /\ call'.value = call.value
    /\ call'.resolvedAt = call.resolvedAt

C23_Lifecycle == [](C23_Stages) /\ [][C23_OutcomeFinal]_vars

\* an invocation that needed an estimate was resolved by an event, and the
\* promise of send rejected afterwards
C23_Witness ==
  /\ pc = "call"
  /\ call.ets # Undefined
  /\ call.promise = "resolved"
  /\ call.at = "done"
  /\ HasOp(call.nodeLog, "send")

====
